---- MODULE Spec2Model ----
(***************************************************************************)
(* DynamoDbChatStorage (storage/dynamodb_chat_storage.py): per-agent       *)
(* conversations kept as items of a DynamoDB table, and the class-level    *)
(* cache of the merged multi-agent view served by fetch_all_chats.         *)
(*                                                                         *)
(* Representation.                                                         *)
(*   identifiers   sequences of one-character strings, so that the key     *)
(*                 f"{session_id}#{agent_id}" and SK.split('#') are        *)
(*                 computed character by character;                        *)
(*   content       [plain |-> TRUE,  blocks |-> <<[text |-> t]>>] is the   *)
(*                 Python str t; [plain |-> FALSE, blocks |-> bs] is the   *)
(*                 Python list bs of content blocks (dicts);               *)
(*   message       [role, content] is a ConversationMessage,               *)
(*                 [role, content, timestamp] a TimestampedMessage; a      *)
(*                 stored record is the dict of the same keys, and a       *)
(*                 record written by another client may lack keys;         *)
(*   item          table[<<tbl, PK, SK>>] is the 'conversation' attribute  *)
(*                 of the item: kind "list" with its records, or kind      *)
(*                 "str" / "num" (not a list), or "absent" (no attribute); *)
(*   Optional[int] <<>> is None and <<n>> is n;                            *)
(*   clock         wall-clock time in milliseconds: time.time() * 1000 is  *)
(*                 clock, and the cache's seconds are scaled by 1000;      *)
(*   last          the call that has just completed, until its caller      *)
(*                 takes the result (Return); chain, onlySaved and failed  *)
(*                 record what earlier calls did.                          *)
(* Three specifications share the handlers' definitions:                   *)
(*   Spec          calls run one at a time, each handler in one step;      *)
(*   SpecKeys      the same, over identifiers that contain '#' and ':' and *)
(*                 over two tables; saved and owner record under which     *)
(*                 identifiers a message was saved and an entry was made;  *)
(*   SpecThreads   two callers of one process (threads sharing the cache   *)
(*                 and the table), a handler being a sequence of steps:    *)
(*                 the statements between two calls to the table, and the  *)
(*                 call that follows where they touch no shared state.     *)
(*                 procs holds each caller's position and locals; writes   *)
(*                 and origin record when each put was made and from which *)
(*                 state of the table each cache entry was read. Thread    *)
(*                 switches inside the statements between two table calls  *)
(*                 are not modelled.                                       *)
(* The item expiry attribute (ttl_key) is not modelled: it is None by      *)
(* default and only the table reads it.                                    *)
(***************************************************************************)
EXTENDS Integers, Sequences, FiniteSets, TLC

VARIABLES table, cache, clock, last, chain, onlySaved, nOps, nTicks, failed,
          saved, owner, procs, writes, origin

vars == <<table, cache, clock, last, chain, onlySaved, nOps, nTicks, failed,
          saved, owner, procs, writes, origin>>

\* what only SpecKeys records, and what only SpecThreads uses
keyVars == <<saved, owner>>
threadVars == <<procs, writes, origin>>

(***************************************************************************)
(* Bounds of the model                                                     *)
(***************************************************************************)
MaxOps == 3
MaxTicks == 1
MaxHistory == 1

(***************************************************************************)
(* Program constants                                                       *)
(***************************************************************************)
CacheTtl == 10
SweepFactor == 10
MsPerSecond == 1000

CacheTtlMs == CacheTtl * MsPerSecond

(***************************************************************************)
(* Input domains                                                           *)
(***************************************************************************)
Tables == {"T"}
UserIds == {<<"u">>}
SessionIds == {<<"s">>, <<"t">>}
\* the session written to; the other session holds what the initial table holds
WrittenSessionIds == {<<"s">>}
AgentIds == {<<"a">>, <<"b">>}
\* the agent written to; the other agent's conversations are those of the initial table
WrittenAgentIds == {<<"a">>}

None == <<>>
Some(n) == <<n>>
HistorySizes == {None} \cup {Some(n) : n \in 0..MaxHistory}

TickSteps == {1, CacheTtlMs, SweepFactor * CacheTtlMs + 1}

Str(t) == [plain |-> TRUE, blocks |-> <<[text |-> t]>>]
Blocks(bs) == [plain |-> FALSE, blocks |-> bs]

ConversationMessage(role, content) == [role |-> role, content |-> content]

UserPlain == ConversationMessage("user", Str("hi"))
AssistantTwoBlocks ==
    ConversationMessage("assistant", Blocks(<<[text |-> "yo"], [text |-> "ps"]>>))
UserStamped == [role |-> "user", content |-> Blocks(<<[text |-> "re"]>>), timestamp |-> 0]
AssistantStamped == [role |-> "assistant", content |-> Blocks(<<[text |-> "ok"]>>), timestamp |-> 0]

NewMessages == {UserPlain, AssistantTwoBlocks, UserStamped}
NewBatches == {<<>>, <<UserPlain, UserPlain>>, <<AssistantStamped, UserStamped>>}

(***************************************************************************)
(* Keys                                                                    *)
(***************************************************************************)
\* f"{session_id}#{agent_id}"
_generate_key(user_id, session_id, agent_id) == session_id \o <<"#">> \o agent_id

\* f"{user_id}:{session_id}"
CacheKey(user_id, session_id) == user_id \o <<":">> \o session_id

\* f"{session_id}#", the prefix of the query
SkPrefix(session_id) == session_id \o <<"#">>

\* begins_with(SK, :skPrefix)
begins_with(sk, prefix) ==
    /\ Len(sk) >= Len(prefix)
    /\ SubSeq(sk, 1, Len(prefix)) = prefix

RECURSIVE SplitAcc(_, _, _)
SplitAcc(s, sep, cur) ==
    IF s = <<>> THEN <<cur>>
    ELSE IF Head(s) = sep THEN <<cur>> \o SplitAcc(Tail(s), sep, <<>>)
    ELSE SplitAcc(Tail(s), sep, Append(cur, Head(s)))

\* str.split(sep)
Split(s, sep) == SplitAcc(s, sep, <<>>)

\* item['SK'].split('#')[1]
AgentOfKey(sk) == Split(sk, "#")[2]

RECURSIVE Join(_)
\* the text of an identifier inside an f-string
Join(chars) == IF chars = <<>> THEN "" ELSE Head(chars) \o Join(Tail(chars))

(***************************************************************************)
(* Message model, codec and history policy                                 *)
(***************************************************************************)
\* isinstance(m, TimestampedMessage): the message carries a timestamp
HasTimestamp(m) == "timestamp" \in DOMAIN m

TimestampedMessage(role, content, timestamp) ==
    [role |-> role, content |-> content, timestamp |-> timestamp]

\* the records {role, content, timestamp} written to the item, content as a
\* sequence of blocks
conversation_to_dict(conversation) ==
    [i \in 1..Len(conversation) |->
        [role |-> conversation[i].role,
         content |-> Blocks(conversation[i].content.blocks),
         timestamp |-> conversation[i].timestamp]]

\* _dict_to_conversation reads msg['role'], msg['content'], msg['timestamp'] of
\* every record; a value that is not a list of such records raises
DecodableRecord(msg) == {"role", "content", "timestamp"} \subseteq DOMAIN msg

_dict_to_conversation(attr) ==
    IF attr.kind # "list" THEN [ok |-> FALSE, exc |-> "TypeError", conv |-> <<>>]
    ELSE IF \E i \in 1..Len(attr.recs) : ~DecodableRecord(attr.recs[i])
    THEN [ok |-> FALSE, exc |-> "KeyError", conv |-> <<>>]
    ELSE [ok |-> TRUE, exc |-> "",
          conv |-> [i \in 1..Len(attr.recs) |->
                       TimestampedMessage(attr.recs[i].role, attr.recs[i].content,
                                          attr.recs[i].timestamp)]]

_remove_timestamps(messages) ==
    [i \in 1..Len(messages) |-> ConversationMessage(messages[i].role, messages[i].content)]

\* should_suppress of the history policy
is_same_role_as_last_message(conversation, new_message) ==
    /\ conversation # <<>>
    /\ conversation[Len(conversation)].role = new_message.role

\* trim of the history policy
trim_conversation(conversation, max_history_size) ==
    IF max_history_size = None THEN conversation
    ELSE LET n == max_history_size[1]
         IN IF n <= 0 THEN <<>>
            ELSE IF Len(conversation) <= n THEN conversation
            ELSE SubSeq(conversation, Len(conversation) - n + 1, Len(conversation))

(***************************************************************************)
(* The table                                                               *)
(***************************************************************************)
ListAttr(recs) == [kind |-> "list", recs |-> recs]
OtherAttr(kind) == [kind |-> kind, recs |-> <<>>]

ItemKey(tbl, pk, sk) == <<tbl, pk, sk>>

\* response.get('Item', {}).get('conversation', [])
GetConversation(tab, tbl, pk, sk) ==
    IF ItemKey(tbl, pk, sk) \in DOMAIN tab /\ tab[ItemKey(tbl, pk, sk)].kind # "absent"
    THEN tab[ItemKey(tbl, pk, sk)]
    ELSE ListAttr(<<>>)

fetch_chat_with_timestamp(tab, tbl, user_id, session_id, agent_id) ==
    _dict_to_conversation(
        GetConversation(tab, tbl, user_id, _generate_key(user_id, session_id, agent_id)))

\* table.put_item(Item={'PK': user_id, 'SK': key, 'conversation': ...})
PutItem(tab, tbl, pk, sk, conversation) ==
    [k \in DOMAIN tab \cup {ItemKey(tbl, pk, sk)} |->
        IF k = ItemKey(tbl, pk, sk) THEN ListAttr(conversation_to_dict(conversation))
        ELSE tab[k]]

\* the SKs of the items with PK = :pk AND begins_with(SK, :skPrefix)
QueryKeys(tab, tbl, user_id, session_id) ==
    {k[3] : k \in {j \in DOMAIN tab :
                      /\ j[1] = tbl
                      /\ j[2] = user_id
                      /\ begins_with(j[3], SkPrefix(session_id))}}

(***************************************************************************)
(* The record of the last completed call, and the chain                    *)
(* fetch_all_chats; save_chat_message; fetch_all_chats on one session      *)
(***************************************************************************)
\* op, its arguments (msgs and size are those the call has read), its outcome
\* ("ok", "suppressed" or the exception raised), the value returned, the
\* table calls issued, whether the cache answered, and all_chats after the sort
Call(op, tbl, user_id, session_id, agent_id, msgs, size, outcome, ret, calls, hit, merged) ==
    [op |-> op, tbl |-> tbl, user |-> user_id, session |-> session_id, agent |-> agent_id,
     msgs |-> msgs, size |-> size, outcome |-> outcome, ret |-> ret, calls |-> calls,
     hit |-> hit, merged |-> merged]

NoCall == Call("none", "T", <<>>, <<>>, <<>>, <<>>, None, "ok", <<>>, <<>>, FALSE, <<>>)

Raised(call) == call.outcome \notin {"ok", "suppressed"}

NoChain == [phase |-> 0, tbl |-> "T", user |-> <<>>, session |-> <<>>, agent |-> <<>>,
            msg |-> <<>>, size |-> None]

SameSession(ch, call) ==
    /\ ch.tbl = call.tbl
    /\ ch.user = call.user
    /\ ch.session = call.session

ChainAfter(ch, call, stored) ==
    IF call.op = "fetch"
    THEN IF ch.phase = 2 /\ SameSession(ch, call) THEN [ch EXCEPT !.phase = 3]
         ELSE IF call.outcome = "ok"
         THEN [NoChain EXCEPT !.phase = 1, !.tbl = call.tbl, !.user = call.user,
                              !.session = call.session]
         ELSE NoChain
    ELSE IF call.op = "save" /\ call.outcome = "ok" /\ ch.phase = 1 /\ SameSession(ch, call)
    THEN [ch EXCEPT !.phase = 2, !.agent = call.agent,
                    !.msg = <<stored>>, !.size = call.size]
    ELSE NoChain

(***************************************************************************)
(* save_chat_message                                                       *)
(***************************************************************************)
\* the check of the last role left out
ConsecutiveRoleUnchecked(existing_conversation, new_message) == FALSE

\* if self.is_same_role_as_last_message(existing_conversation, new_message)
ConsecutiveRole(existing_conversation, new_message) ==
    is_same_role_as_last_message(existing_conversation, new_message)

\* return existing_conversation
SuppressedResult(existing_conversation) == existing_conversation

\* if isinstance(new_message, ConversationMessage): new_message = TimestampedMessage(...,
\* timestamp=int(time.time() * 1000))
StampNew(new_message, now) ==
    IF HasTimestamp(new_message) THEN new_message
    ELSE TimestampedMessage(new_message.role, new_message.content, now)

\* the appended conversation written without trimming
UntrimmedAfterAppend(existing_conversation, new_message, max_history_size) ==
    Append(existing_conversation, new_message)

\* existing_conversation.append(new_message); self.trim_conversation(...)
TrimmedAfterAppend(existing_conversation, new_message, max_history_size) ==
    trim_conversation(Append(existing_conversation, new_message), max_history_size)

\* the entry left in place
CacheNotInvalidated(cch, cache_key) == cch

\* if cache_key in self._chat_cache: del self._chat_cache[cache_key]
InvalidateCache(cch, cache_key) == [k \in DOMAIN cch \ {cache_key} |-> cch[k]]

\* return self._remove_timestamps(trimmed_conversation)
SavedResult(trimmed_conversation) == _remove_timestamps(trimmed_conversation)

SaveFaults == {"none", "get", "put"}

SaveChatMessage(tbl, user_id, session_id, agent_id, new_message, max_history_size, fault) ==
    LET key == _generate_key(user_id, session_id, agent_id)
        cache_key == CacheKey(user_id, session_id)
        done(msgs, size, outcome, ret, calls) ==
            Call("save", tbl, user_id, session_id, agent_id, msgs, size, outcome, ret, calls,
                 FALSE, <<>>)
    IN /\ last = NoCall
       /\ nOps < MaxOps
       /\ \E fetched \in {fetch_chat_with_timestamp(table, tbl, user_id, session_id, agent_id)},
             stamped \in {StampNew(new_message, clock)} :
          \E trimmed \in {TrimmedAfterAppend(fetched.conv, stamped, max_history_size)} :
          \E call \in {IF fault = "get"
                       THEN done(<<>>, None, "StoreError", <<>>, <<"get">>)
                       ELSE IF ~fetched.ok
                       THEN done(<<>>, None, fetched.exc, <<>>, <<"get">>)
                       ELSE IF ConsecutiveRole(fetched.conv, new_message)
                       THEN done(<<new_message>>, max_history_size, "suppressed",
                                 SuppressedResult(fetched.conv), <<"get">>)
                       ELSE IF fault = "put"
                       THEN done(<<new_message>>, max_history_size, "StoreError", <<>>,
                                 <<"get", "put">>)
                       ELSE done(<<new_message>>, max_history_size, "ok", SavedResult(trimmed),
                                 <<"get", "put">>)} :
            /\ nOps' = nOps + 1
            /\ last' = call
            /\ chain' = ChainAfter(chain, call, stamped)
            /\ cache' = IF Len(call.calls) = 2 THEN InvalidateCache(cache, cache_key) ELSE cache
            /\ table' = IF call.outcome = "ok" THEN PutItem(table, tbl, user_id, key, trimmed)
                        ELSE table
            /\ onlySaved' = IF call.outcome = "ok" /\ ItemKey(tbl, user_id, key) \notin DOMAIN table
                            THEN onlySaved \cup {ItemKey(tbl, user_id, key)}
                            ELSE onlySaved
            /\ UNCHANGED <<clock, nTicks>>

(***************************************************************************)
(* save_chat_messages                                                      *)
(***************************************************************************)
\* TimestampedMessage(role=..., content=...) : the timestamp defaults to the
\* time of construction
DefaultTimestamp(now) == now

\* if isinstance(new_messages[0], ConversationMessage): new_messages = [...]
StampBatch(new_messages, now) ==
    IF HasTimestamp(new_messages[1]) THEN new_messages
    ELSE [i \in 1..Len(new_messages) |->
             TimestampedMessage(new_messages[i].role, new_messages[i].content,
                                DefaultTimestamp(now))]

\* existing_conversation.extend(new_messages); self.trim_conversation(...)
TrimmedAfterExtend(existing_conversation, new_messages, max_history_size) ==
    trim_conversation(existing_conversation \o new_messages, max_history_size)

\* the entry of the session deleted, as save_chat_message does
CacheInvalidatedByBulkSave(cch, cache_key) == [k \in DOMAIN cch \ {cache_key} |-> cch[k]]

\* save_chat_messages has no statement that touches self._chat_cache
CacheAfterBulkSave(cch, cache_key) == cch

SaveChatMessages(tbl, user_id, session_id, agent_id, new_messages, max_history_size, fault) ==
    LET key == _generate_key(user_id, session_id, agent_id)
        stamped == StampBatch(new_messages, clock)
        trimmed(existing_conversation) ==
            TrimmedAfterExtend(existing_conversation, stamped, max_history_size)
        done(msgs, size, outcome, ret, calls) ==
            Call("bulk", tbl, user_id, session_id, agent_id, msgs, size, outcome, ret, calls,
                 FALSE, <<>>)
    IN /\ last = NoCall
       /\ nOps < MaxOps
       /\ \E fetched \in {fetch_chat_with_timestamp(table, tbl, user_id, session_id, agent_id)} :
          \E call \in {IF fault = "get"
                       THEN done(<<>>, None, "StoreError", <<>>, <<"get">>)
                       ELSE IF ~fetched.ok
                       THEN done(<<>>, None, fetched.exc, <<>>, <<"get">>)
                       ELSE IF new_messages = <<>>
                       THEN done(new_messages, max_history_size, "IndexError", <<>>, <<"get">>)
                       ELSE IF fault = "put"
                       THEN done(new_messages, max_history_size, "StoreError", <<>>,
                                 <<"get", "put">>)
                       ELSE done(new_messages, max_history_size, "ok", SavedResult(trimmed(fetched.conv)),
                                 <<"get", "put">>)} :
            /\ nOps' = nOps + 1
            /\ last' = call
            /\ chain' = ChainAfter(chain, call, <<>>)
            /\ table' = IF call.outcome = "ok" THEN PutItem(table, tbl, user_id, key, trimmed(fetched.conv))
                        ELSE table
            /\ onlySaved' = IF call.outcome = "ok" THEN onlySaved \ {ItemKey(tbl, user_id, key)}
                            ELSE onlySaved
            /\ cache' = CacheAfterBulkSave(cache, CacheKey(user_id, session_id))
            /\ UNCHANGED <<clock, nTicks>>

(***************************************************************************)
(* fetch_all_chats                                                         *)
(***************************************************************************)
\* the comparison written <= : an entry aged exactly the time-to-live is served
CacheFreshInclusive(cache_entry, current_time) ==
    current_time - cache_entry.timestamp <= CacheTtlMs

\* the entry never taken for fresh
CacheNeverFresh(cache_entry, current_time) == FALSE

\* if current_time - cache_entry['timestamp'] < self._cache_ttl
CacheFresh(cache_entry, current_time) ==
    current_time - cache_entry.timestamp < CacheTtlMs

\* sum(len(item.get('conversation', [])) ...): len() of a number raises
CountRaises(attr) == attr.kind = "num"

\* content = msg['content']; msg['role']; content[0]['text']; msg['timestamp']
MessageRaises(msg) ==
    \/ ~DecodableRecord(msg)
    \/ /\ msg.role = "assistant"
       /\ ~msg.content.plain
       /\ \/ msg.content.blocks = <<>>
          \/ "text" \notin DOMAIN msg.content.blocks[1]

\* text = content[0]['text'] if isinstance(content, list) else content
\* content = [{'text': f"[{agent_id}] {text}"}]
AssistantContent(content, agent_id) ==
    Blocks(<<[text |-> "[" \o Join(agent_id) \o "] " \o content.blocks[1].text]>>)

\* elif not isinstance(content, list): content = [{'text': content}]
OtherContent(content) == IF content.plain THEN Blocks(content.blocks) ELSE content

ProcessMessage(msg, agent_id) ==
    TimestampedMessage(msg.role,
                       IF msg.role = "assistant" THEN AssistantContent(msg.content, agent_id)
                       ELSE OtherContent(msg.content),
                       msg.timestamp)

\* if not isinstance(item.get('conversation'), list): continue
ItemSkipped(attr) == attr.kind # "list"

ItemRaises(attr) ==
    /\ ~ItemSkipped(attr)
    /\ \E i \in 1..Len(attr.recs) : MessageRaises(attr.recs[i])

ProcessItem(sk, attr) ==
    IF ItemSkipped(attr) THEN <<>>
    ELSE [i \in 1..Len(attr.recs) |-> ProcessMessage(attr.recs[i], AgentOfKey(sk))]

RECURSIVE ProcessItems(_, _, _, _)
\* for item in response['Items']: ... all_chats.append(...)
ProcessItems(tab, tbl, user_id, order) ==
    IF order = <<>> THEN <<>>
    ELSE ProcessItem(Head(order), tab[ItemKey(tbl, user_id, Head(order))])
            \o ProcessItems(tab, tbl, user_id, Tail(order))

RECURSIVE InsertByTimestamp(_, _)
InsertByTimestamp(sorted, m) ==
    IF sorted = <<>> THEN <<m>>
    ELSE IF Head(sorted).timestamp <= m.timestamp
    THEN <<Head(sorted)>> \o InsertByTimestamp(Tail(sorted), m)
    ELSE <<m>> \o sorted

RECURSIVE StableSort(_)
StableSort(msgs) ==
    IF msgs = <<>> THEN <<>>
    ELSE InsertByTimestamp(StableSort(SubSeq(msgs, 1, Len(msgs) - 1)), msgs[Len(msgs)])

\* the sort left out
Unsorted(all_chats) == all_chats

RECURSIVE InsertBeforeEqual(_, _)
InsertBeforeEqual(sorted, m) ==
    IF sorted = <<>> THEN <<m>>
    ELSE IF Head(sorted).timestamp < m.timestamp
    THEN <<Head(sorted)>> \o InsertBeforeEqual(Tail(sorted), m)
    ELSE <<m>> \o sorted

RECURSIVE SortTiesReversed(_)
\* a sort by timestamp that is not stable: equal timestamps come out reversed
SortTiesReversed(msgs) ==
    IF msgs = <<>> THEN <<>>
    ELSE InsertBeforeEqual(SortTiesReversed(SubSeq(msgs, 1, Len(msgs) - 1)), msgs[Len(msgs)])

\* all_chats.sort(key=attrgetter('timestamp'))
SortByTimestamp(all_chats) == StableSort(all_chats)

\* the entry stamped with the time at which it is stored, not with the time
\* read when the call began
StoreEntryStampedLate(cch, cache_key, current_time, data) ==
    [k \in DOMAIN cch \cup {cache_key} |->
        IF k = cache_key THEN [timestamp |-> clock, data |-> data] ELSE cch[k]]

\* self._chat_cache[cache_key] = {'timestamp': current_time, 'data': ...}
StoreEntry(cch, cache_key, current_time, data) ==
    [k \in DOMAIN cch \cup {cache_key} |->
        IF k = cache_key THEN [timestamp |-> current_time, data |-> data] ELSE cch[k]]

\* the empty result returned without being cached
EmptyEntryNotStored(cch, cache_key, current_time) == cch

\* if not response.get('Items'): self._chat_cache[cache_key] = {..., 'data': []}
StoreEmptyEntry(cch, cache_key, current_time) ==
    StoreEntry(cch, cache_key, current_time, <<>>)

\* sweep stands for hash(str(current_time)) % 100 == 0
_clean_cache(cch, current_time, sweep) ==
    IF sweep
    THEN [k \in {j \in DOMAIN cch :
                    ~(current_time - cch[j].timestamp > CacheTtlMs * SweepFactor)} |-> cch[k]]
    ELSE cch

\* the entry stored although the call raised
CachePopulatedOnFailure(call) == ~call.hit

\* the statements that store the entry are reached: the call neither returned
\* from the cache nor raised in the query or in the loop over the items
CachePopulated(call) == ~call.hit /\ ~Raised(call)

\* the orders in which the query may return the items
Orderings(keys) ==
    {f \in [1..Cardinality(keys) -> keys] : \A i, j \in DOMAIN f : f[i] = f[j] => i = j}

FetchFaults == {"none", "query"}

FetchAllChats(tbl, user_id, session_id, fault, order, sweep) ==
    LET cache_key == CacheKey(user_id, session_id)
        current_time == clock
        keys == QueryKeys(table, tbl, user_id, session_id)
        attr(sk) == table[ItemKey(tbl, user_id, sk)]
        all_chats == SortByTimestamp(ProcessItems(table, tbl, user_id, order))
        done(outcome, ret, calls, hit, merged) ==
            Call("fetch", tbl, user_id, session_id, <<>>, <<>>, None, outcome, ret, calls,
                 hit, merged)
    IN /\ last = NoCall
       /\ nOps < MaxOps
       /\ \E call \in {IF cache_key \in DOMAIN cache /\ CacheFresh(cache[cache_key], current_time)
                       THEN done("ok", cache[cache_key].data, <<>>, TRUE, <<>>)
                       ELSE IF fault = "query"
                       THEN done("StoreError", <<>>, <<"query">>, FALSE, <<>>)
                       ELSE IF keys = {}
                       THEN done("ok", <<>>, <<"query">>, FALSE, <<>>)
                       ELSE IF \E sk \in keys : CountRaises(attr(sk))
                       THEN done("TypeError", <<>>, <<"query">>, FALSE, <<>>)
                       ELSE IF \E sk \in keys : ItemRaises(attr(sk))
                       THEN done("KeyError", <<>>, <<"query">>, FALSE, <<>>)
                       ELSE LET sorted == all_chats
                            IN done("ok", _remove_timestamps(sorted), <<"query">>, FALSE,
                                    sorted)} :
            /\ nOps' = nOps + 1
            /\ last' = call
            /\ chain' = ChainAfter(chain, call, <<>>)
            /\ cache' = IF ~CachePopulated(call) THEN cache
                        ELSE IF keys = {} THEN StoreEmptyEntry(cache, cache_key, current_time)
                        ELSE _clean_cache(StoreEntry(cache, cache_key, current_time, call.ret),
                                          current_time, sweep)
            /\ UNCHANGED <<table, clock, onlySaved, nTicks>>

(***************************************************************************)
(* Time                                                                    *)
(***************************************************************************)
Tick(d) ==
    /\ last = NoCall
    /\ nTicks < MaxTicks
    /\ nTicks' = nTicks + 1
    /\ clock' = clock + d
    /\ UNCHANGED <<table, cache, last, chain, onlySaved, nOps>>

(***************************************************************************)
(* Initial states: the table as earlier runs and other clients left it     *)
(***************************************************************************)
Rec(role, content, timestamp) == TimestampedMessage(role, content, timestamp)

\* the callers of SpecThreads
Procs == {"p", "q"}

\* a caller's position and locals: pc is the step it takes next; session and
\* msgs are its arguments; current_time, read (existing_conversation, then
\* trimmed_conversation) and snap (the items the query returned) are the
\* handler's locals; outcome and ret are the result of the finished call. ver
\* is the number of puts the table had taken when the data of a fetch was read
\* (for a save, with its own put); hit, stale and deleted tell whether the cache
\* answered, whether the entry found at the start had been read before a
\* completed put, and whether the save deleted an entry; made is the time at
\* which the fetch that stored the entry serving a hit began.
Local(pc, op, session_id, msgs, now, read, snap, ver, hit, stale, made, deleted, outcome, ret) ==
    [pc |-> pc, op |-> op, session |-> session_id, msgs |-> msgs,
     current_time |-> now, read |-> read, snap |-> snap,
     ver |-> ver, hit |-> hit, stale |-> stale, made |-> made, deleted |-> deleted,
     outcome |-> outcome, ret |-> ret]

\* a caller that has made no call yet
Idle ==
    Local("idle", "none", <<>>, <<>>, 0, <<>>, <<>>, 0, FALSE, FALSE, 0, FALSE, "ok", <<>>)

TableOf(tbl, user_id, items) ==
    [k \in {ItemKey(tbl, user_id, sk) : sk \in DOMAIN items} |-> items[k[3]]]

EmptyTable == TableOf("T", <<"u">>, <<>>)

\* written by save_chat_message and save_chat_messages
SeededTable ==
    TableOf("T", <<"u">>,
            (<<"s", "#", "a">> :> ListAttr(<<Rec("user", Blocks(<<[text |-> "hi"]>>), 1),
                                            Rec("assistant",
                                                Blocks(<<[text |-> "yo"], [text |-> "ps"]>>), 4)>>))
         @@ (<<"s", "#", "b">> :> ListAttr(<<Rec("user", Blocks(<<[text |-> "re"]>>), 3)>>))
         @@ (<<"t", "#", "a">> :> ListAttr(<<Rec("assistant", Blocks(<<[text |-> "ok"]>>), 2)>>)))

\* one agent's item of each session written by another client of the table: a
\* conversation that is a string, and a record without a timestamp
ForeignTable ==
    TableOf("T", <<"u">>,
            (<<"s", "#", "a">> :> ListAttr(<<Rec("user", Blocks(<<[text |-> "hi"]>>), 1)>>))
         @@ (<<"s", "#", "b">> :> OtherAttr("str"))
         @@ (<<"t", "#", "a">> :> ListAttr(<<Rec("assistant", Blocks(<<[text |-> "ok"]>>), 2)>>))
         @@ (<<"t", "#", "b">> :>
                ListAttr(<<[role |-> "user", content |-> Blocks(<<[text |-> "re"]>>)]>>)))

\* contents kept as plain strings, a conversation that is a number, an item
\* without the attribute, and a reply whose first block is not a text block
ForeignTable2 ==
    TableOf("T", <<"u">>,
            (<<"s", "#", "a">> :> ListAttr(<<Rec("user", Str("hi"), 1),
                                            Rec("assistant", Str("yo"), 2)>>))
         @@ (<<"s", "#", "b">> :> OtherAttr("num"))
         @@ (<<"t", "#", "a">> :> OtherAttr("absent"))
         @@ (<<"t", "#", "b">> :>
                ListAttr(<<Rec("assistant", Blocks(<<[image |-> "png"], [text |-> "x"]>>), 3)>>)))

InitTables == {EmptyTable, SeededTable, ForeignTable, ForeignTable2}

Init ==
    /\ table \in InitTables
    /\ cache = <<>>
    /\ clock = 5
    /\ last = NoCall
    /\ chain = NoChain
    /\ onlySaved = {}
    /\ nOps = 0
    /\ nTicks = 0
    /\ failed = <<>>
    /\ saved = {}
    /\ owner = <<>>
    /\ procs = [p \in Procs |-> Idle]
    /\ writes = <<>>
    /\ origin = <<>>

\* The arguments a failing call does not read are not enumerated: a call whose
\* get fails reads neither the message nor the size, and one whose put fails
\* has read the message only for its role (or for the batch being empty).
OneOf(S) == {CHOOSE x \in S : TRUE}

\* failed holds "raised" for the (table, user, session) whose latest
\* fetch_all_chats raised, and "retried" when the fetch after that has
\* returned, until its caller takes the result
FailedAfter(fld, call) ==
    LET key == <<call.tbl, call.user, call.session>>
        others == [k \in DOMAIN fld \ {key} |-> fld[k]]
    IN IF call.op # "fetch" THEN fld
       ELSE IF Raised(call) THEN others @@ (key :> "raised")
       ELSE IF key \in DOMAIN fld /\ fld[key] = "raised" THEN others @@ (key :> "retried")
       ELSE others

Save ==
    /\ UNCHANGED <<failed, keyVars, threadVars>>
    /\ \E tbl \in Tables, user_id \in UserIds, session_id \in WrittenSessionIds,
       agent_id \in WrittenAgentIds, fault \in SaveFaults :
        \E new_message \in IF fault = "get" THEN OneOf(NewMessages) ELSE NewMessages,
           max_history_size \in IF fault = "none" THEN HistorySizes ELSE {None} :
            SaveChatMessage(tbl, user_id, session_id, agent_id, new_message,
                            max_history_size, fault)

SaveBulk ==
    /\ UNCHANGED <<failed, keyVars, threadVars>>
    /\ \E tbl \in Tables, user_id \in UserIds, session_id \in WrittenSessionIds,
       agent_id \in WrittenAgentIds, fault \in SaveFaults :
        \E new_messages \in IF fault = "get" THEN OneOf(NewBatches) ELSE NewBatches,
           max_history_size \in IF fault = "none" THEN HistorySizes ELSE {None} :
            SaveChatMessages(tbl, user_id, session_id, agent_id, new_messages,
                             max_history_size, fault)

\* _clean_cache deletes nothing unless an entry is older than ten times the
\* time-to-live, so the draw of sweep is enumerated only then
SweepDraws(cch, current_time) ==
    IF \E k \in DOMAIN cch : current_time - cch[k].timestamp > CacheTtlMs * SweepFactor
    THEN BOOLEAN ELSE {FALSE}

Fetch ==
    /\ \E tbl \in Tables, user_id \in UserIds, session_id \in SessionIds, fault \in FetchFaults :
        \E order \in Orderings(QueryKeys(table, tbl, user_id, session_id)),
           sweep \in SweepDraws(cache, clock) :
            FetchAllChats(tbl, user_id, session_id, fault, order, sweep)
    /\ failed' = FailedAfter(failed, last')
    /\ UNCHANGED <<keyVars, threadVars>>

Advance ==
    /\ UNCHANGED <<failed, keyVars, threadVars>>
    /\ \E d \in TickSteps : Tick(d)

\* the caller takes the result of the call
Return ==
    /\ last # NoCall
    /\ last' = NoCall
    /\ failed' = [k \in {j \in DOMAIN failed : failed[j] = "raised"} |-> "raised"]
    /\ UNCHANGED <<table, cache, clock, chain, onlySaved, nOps, nTicks>>
    /\ UNCHANGED <<keyVars, threadVars>>

Next == Save \/ SaveBulk \/ Fetch \/ Advance \/ Return

Spec == Init /\ [][Next]_vars

(***************************************************************************)
(* Vocabulary of the claims                                                *)
(***************************************************************************)
\* this step is a call of op; last' is its record and the unprimed variables
\* are the state the call started in
StepOf(op) == last = NoCall /\ last' # NoCall /\ last'.op = op

Min(a, b) == IF a <= b THEN a ELSE b

LastN(seq, n) == SubSeq(seq, Len(seq) - n + 1, Len(seq))

Count(seq, x) == Cardinality({i \in 1..Len(seq) : seq[i] = x})

Elements(seq) == {seq[i] : i \in 1..Len(seq)}

SameBag(s1, s2) ==
    /\ Len(s1) = Len(s2)
    /\ \A x \in Elements(s1) \cup Elements(s2) : Count(s1, x) = Count(s2, x)

\* the persisted conversation of (user, session, agent): its records, none
\* when there is no item
Persisted(tab, tbl, user_id, session_id, agent_id) ==
    GetConversation(tab, tbl, user_id, session_id \o <<"#">> \o agent_id).recs

\* the message as the aggregate shows it: role and content, the content of a
\* reply labelled with the agent
Shown(m, agent_id) ==
    LET p == ProcessMessage(m, agent_id) IN ConversationMessage(p.role, p.content)

NoTimestamps(messages) == \A i \in 1..Len(messages) : "timestamp" \notin DOMAIN messages[i]

(***************************************************************************)
(* C1                                                                      *)
(***************************************************************************)
ChainComplete == chain.phase = 3 /\ last.op = "fetch" /\ last.outcome = "ok"

ChainMessageShown == Shown(chain.msg[1], chain.agent) \in Elements(last.ret)

\* C1 as stated: after fetch_all_chats; an accepted save_chat_message whose
\* put succeeded; fetch_all_chats on the same user and session, the second
\* result contains the saved message, whatever the maximum history size.
C1_SecondFetchHasMessage == ChainComplete => ChainMessageShown

\* C1 amended: the same, for a save given no maximum history size or one of
\* at least 1 (a size of 0 trims the new message away before the put).
C1_SecondFetchHasKeptMessage ==
    (ChainComplete /\ (chain.size = None \/ chain.size[1] >= 1)) => ChainMessageShown

\* the chain ran with no time passing, so the first fetch's entry, had it
\* stayed, would still be within its time-to-live
C1_Witness ==
    /\ ChainComplete
    /\ chain.size = Some(1)
    /\ nTicks = 0
    /\ ~last.hit
    /\ ChainMessageShown

(***************************************************************************)
(* C2                                                                      *)
(***************************************************************************)
\* C2: a save_chat_message whose message has the role of the last entry of the
\* persisted, non-empty conversation issues no put and leaves the table as
\* it was.
C2_SuppressedSaveWritesNothing ==
    [][(/\ StepOf("save")
        /\ last'.msgs # <<>>
        /\ LET conv == Persisted(table, last'.tbl, last'.user, last'.session, last'.agent)
           IN /\ conv # <<>>
              /\ conv[Len(conv)].role = last'.msgs[1].role)
       => (/\ "put" \notin Elements(last'.calls)
           /\ table' = table)]_vars

C2_Witness ==
    /\ last.op = "save"
    /\ last.outcome = "suppressed"
    /\ Persisted(table, last.tbl, last.user, last.session, last.agent) # <<>>

(***************************************************************************)
(* C3                                                                      *)
(***************************************************************************)
\* C3: every sequence save_chat_message returns carries no timestamps, when the
\* message was suppressed as when it was accepted.
C3_SaveReturnsNoTimestamps ==
    (last.op = "save" /\ ~Raised(last)) => NoTimestamps(last.ret)

(***************************************************************************)
(* C4                                                                      *)
(***************************************************************************)
\* the messages of the call as they are stored: those without a timestamp
\* stamped with the time of the call
StoredForm(msgs, now) ==
    [i \in 1..Len(msgs) |->
        IF HasTimestamp(msgs[i]) THEN msgs[i]
        ELSE TimestampedMessage(msgs[i].role, msgs[i].content, now)]

\* C4: after a successful save_chat_message or save_chat_messages with maximum
\* history size N >= 0 the persisted conversation is the last min(L, N) entries
\* of the untrimmed one (the conversation before the call followed by the new
\* messages, L entries), in order; with no maximum it is the untrimmed one.
C4_PersistedIsLastN ==
    [][((StepOf("save") \/ StepOf("bulk")) /\ last'.outcome = "ok")
       => \E before \in {Persisted(table, last'.tbl, last'.user, last'.session, last'.agent)},
             after \in {Persisted(table', last'.tbl, last'.user, last'.session, last'.agent)} :
          \E untrimmed \in {conversation_to_dict(before \o StoredForm(last'.msgs, clock))} :
          \E kept \in {IF last'.size = None THEN Len(untrimmed)
                        ELSE Min(Len(untrimmed), last'.size[1])} :
             /\ Len(after) = kept
             /\ after = LastN(untrimmed, kept)]_vars

\* a batch of two written with a maximum of 1: the older entries are dropped
C4_Witness ==
    /\ last.op = "bulk"
    /\ last.outcome = "ok"
    /\ last.size = Some(1)
    /\ Len(last.msgs) = 2
    /\ Len(Persisted(table, last.tbl, last.user, last.session, last.agent)) = 1

(***************************************************************************)
(* C5                                                                      *)
(***************************************************************************)
RECURSIVE Flatten(_)
Flatten(seqs) == IF seqs = <<>> THEN <<>> ELSE Head(seqs) \o Flatten(Tail(seqs))

SetToSeq(S) == CHOOSE f \in [1..Cardinality(S) -> S] : \A x \in S : \E i \in DOMAIN f : f[i] = x

\* the stored messages of every agent of the session, each as the aggregate
\* shows it, with its stored timestamp
StoredOfSession(tab, tbl, user_id, session_id) ==
    LET agents == SetToSeq({a \in AgentIds :
                               ItemKey(tbl, user_id, session_id \o <<"#">> \o a) \in DOMAIN tab})
    IN Flatten([i \in 1..Len(agents) |->
                   LET recs == Persisted(tab, tbl, user_id, session_id, agents[i])
                   IN [j \in 1..Len(recs) |-> ProcessMessage(recs[j], agents[i])]])

Ascending(messages) ==
    \A i, j \in 1..Len(messages) : i < j => messages[i].timestamp <= messages[j].timestamp

FetchedFromStore == last.op = "fetch" /\ last.outcome = "ok" /\ ~last.hit

\* C5: on a cache miss fetch_all_chats returns one message per stored message of
\* the session's agents, none dropped or duplicated, in ascending order of the
\* stored timestamps, the timestamps stripped.
C5_AggregateCompleteAndOrdered ==
    FetchedFromStore
    => /\ SameBag(last.merged, StoredOfSession(table, last.tbl, last.user, last.session))
       /\ Ascending(last.merged)
       /\ last.ret = _remove_timestamps(last.merged)
       /\ NoTimestamps(last.ret)

\* two agents' conversations whose concatenation is not in timestamp order
C5_Witness ==
    /\ FetchedFromStore
    /\ Len(last.ret) >= 3
    /\ Cardinality({a \in AgentIds :
                      Persisted(table, last.tbl, last.user, last.session, a) # <<>>}) = 2
    /\ ~Ascending(StoredOfSession(table, last.tbl, last.user, last.session))

(***************************************************************************)
(* C6                                                                      *)
(***************************************************************************)
\* the content the claim describes: the first text block of a reply prefixed
\* with "[" + agent_id + "] " and its other blocks kept; other contents
\* unchanged but for plain text made a single text block
LabelledKeepingBlocks(m, agent_id) ==
    ConversationMessage(
        m.role,
        IF m.role = "assistant"
        THEN Blocks(<<[text |-> "[" \o Join(agent_id) \o "] " \o m.content.blocks[1].text]>>
                       \o Tail(m.content.blocks))
        ELSE Blocks(m.content.blocks))

ExpectedOfSession(tab, tbl, user_id, session_id) ==
    LET agents == SetToSeq({a \in AgentIds :
                               ItemKey(tbl, user_id, session_id \o <<"#">> \o a) \in DOMAIN tab})
    IN Flatten([i \in 1..Len(agents) |->
                   LET recs == Persisted(tab, tbl, user_id, session_id, agents[i])
                   IN [j \in 1..Len(recs) |-> LabelledKeepingBlocks(recs[j], agents[i])]])

\* C6: in the result of fetch_all_chats every reply has its first text block
\* prefixed with the label of the agent it was saved under and keeps its other
\* blocks, and every other message keeps its content.
C6_AggregateLabelsKeepBlocks ==
    FetchedFromStore
    => SameBag(last.ret, ExpectedOfSession(table, last.tbl, last.user, last.session))

(***************************************************************************)
(* C7                                                                      *)
(***************************************************************************)
EntryAge(cch, user_id, session_id, now) == now - cch[CacheKey(user_id, session_id)].timestamp

HasEntry(cch, user_id, session_id) == CacheKey(user_id, session_id) \in DOMAIN cch

\* C7: a fetch_all_chats that finds an entry aged the time-to-live or more does
\* not return from the cache: it issues a query.
C7_ExpiredEntryNotServed ==
    [][(/\ StepOf("fetch")
        /\ HasEntry(cache, last'.user, last'.session)
        /\ EntryAge(cache, last'.user, last'.session, clock) >= CacheTtlMs)
       => (/\ ~last'.hit
           /\ last'.calls = <<"query">>)]_vars

\* the query of such a fetch failed, so the entry found is still there: it is
\* aged exactly the time-to-live and no call wrote to the table since it was made
C7_Witness ==
    /\ last.op = "fetch"
    /\ last.outcome = "StoreError"
    /\ last.calls = <<"query">>
    /\ HasEntry(cache, last.user, last.session)
    /\ EntryAge(cache, last.user, last.session, clock) = CacheTtlMs
    /\ nOps = 2

(***************************************************************************)
(* C8                                                                      *)
(***************************************************************************)
\* C8: a fetch_all_chats that finds an entry younger than the time-to-live
\* returns its data, issues no call to the table and leaves the cache and the
\* table as they were.
C8_FreshEntryServedWithoutStore ==
    [][(/\ StepOf("fetch")
        /\ HasEntry(cache, last'.user, last'.session)
        /\ EntryAge(cache, last'.user, last'.session, clock) < CacheTtlMs)
       => (/\ last'.outcome = "ok"
           /\ last'.ret = cache[CacheKey(last'.user, last'.session)].data
           /\ last'.calls = <<>>
           /\ cache' = cache
           /\ table' = table)]_vars

\* served from an entry that holds messages, one tick after it was made
C8_Witness ==
    /\ last.op = "fetch"
    /\ last.hit
    /\ last.ret # <<>>
    /\ EntryAge(cache, last.user, last.session, clock) = 1

(***************************************************************************)
(* C9                                                                      *)
(***************************************************************************)
NoAdjacentSameRole(recs) == \A i \in 1..(Len(recs) - 1) : recs[i].role # recs[i + 1].role

\* C9: a conversation that started empty and was written by save_chat_message
\* only, with any maximum history sizes, has no two adjacent entries of the
\* same role.
C9_NoConsecutiveSameRole == \A k \in onlySaved : NoAdjacentSameRole(table[k].recs)

\* two turns kept, and a third of the role of the last one refused
C9_Witness ==
    /\ last.op = "save"
    /\ last.outcome = "suppressed"
    /\ ItemKey(last.tbl, last.user, last.session \o <<"#">> \o last.agent) \in onlySaved
    /\ Len(Persisted(table, last.tbl, last.user, last.session, last.agent)) = 2

(***************************************************************************)
(* C10                                                                     *)
(***************************************************************************)
Undecodable(attr) ==
    \/ attr.kind # "list"
    \/ \E i \in 1..Len(attr.recs) : ~DecodableRecord(attr.recs[i])

SessionItems(tab, tbl, user_id, session_id) ==
    {a \in AgentIds : ItemKey(tbl, user_id, session_id \o <<"#">> \o a) \in DOMAIN tab}

ItemOf(tab, tbl, user_id, session_id, agent_id) ==
    tab[ItemKey(tbl, user_id, session_id \o <<"#">> \o agent_id)]

\* the messages of the agents whose items decode
DecodableOfSession(tab, tbl, user_id, session_id) ==
    LET agents == SetToSeq({a \in SessionItems(tab, tbl, user_id, session_id) :
                               ~Undecodable(ItemOf(tab, tbl, user_id, session_id, a))})
    IN Flatten([i \in 1..Len(agents) |->
                   LET recs == ItemOf(tab, tbl, user_id, session_id, agents[i]).recs
                   IN [j \in 1..Len(recs) |-> Shown(recs[j], agents[i])]])

\* the query answered with several items, one of them undecodable and the
\* others well-formed conversations of text messages
OneUndecodableItem ==
    LET items == SessionItems(table, last.tbl, last.user, last.session)
        bad == {a \in items : Undecodable(ItemOf(table, last.tbl, last.user, last.session, a))}
    IN /\ last.op = "fetch"
       /\ ~last.hit
       /\ last.outcome # "StoreError"
       /\ Cardinality(items) >= 2
       /\ Cardinality(bad) = 1
       /\ \A a \in items \ bad :
             ~ItemRaises(ItemOf(table, last.tbl, last.user, last.session, a))

\* C10: when one of several items of the query is undecodable, fetch_all_chats
\* does not fail: it returns the messages of the other agents' items.
C10_UndecodableItemSkipped ==
    OneUndecodableItem
    => /\ last.outcome = "ok"
       /\ SameBag(last.ret, DecodableOfSession(table, last.tbl, last.user, last.session))

(***************************************************************************)
(* C11                                                                     *)
(***************************************************************************)
FetchKey(call) == <<call.tbl, call.user, call.session>>

LastFetchRaised(fld, call) == FetchKey(call) \in DOMAIN fld /\ fld[FetchKey(call)] = "raised"

\* C11: a fetch_all_chats that raises (the query fails, or processing the
\* items raises) leaves the whole cache as it was, and the next
\* fetch_all_chats for the same user and session queries the table again
\* instead of answering from the cache.
C11_FailedFetchLeavesCache ==
    [][StepOf("fetch")
       => /\ Raised(last') => cache' = cache
          /\ LastFetchRaised(failed, last') => (~last'.hit /\ last'.calls = <<"query">>)]_vars

\* the fetch after a failed one went to the table and returned its messages
C11_Witness ==
    /\ last.op = "fetch"
    /\ last.outcome = "ok"
    /\ last.calls = <<"query">>
    /\ last.ret # <<>>
    /\ FetchKey(last) \in DOMAIN failed
    /\ failed[FetchKey(last)] = "retried"

(***************************************************************************)
(* C12                                                                     *)
(***************************************************************************)
NoStoredItems(tab, call) == QueryKeys(tab, call.tbl, call.user, call.session) = {}

\* C12: for a user and session with no stored items, fetch_all_chats whose
\* query succeeds returns the empty sequence without raising and stores an
\* entry holding the empty sequence, stamped with the time of the call; and a
\* fetch_all_chats that finds such an entry younger than the time-to-live
\* returns the empty sequence without a call to the table.
C12_EmptySessionCached ==
    [][(StepOf("fetch") /\ NoStoredItems(table, last'))
       => /\ (~last'.hit /\ last'.outcome # "StoreError")
             => /\ last'.outcome = "ok"
                /\ last'.ret = <<>>
                /\ HasEntry(cache', last'.user, last'.session)
                /\ cache'[CacheKey(last'.user, last'.session)] =
                       [timestamp |-> clock, data |-> <<>>]
          /\ (/\ HasEntry(cache, last'.user, last'.session)
              /\ EntryAge(cache, last'.user, last'.session, clock) < CacheTtlMs)
             => /\ last'.outcome = "ok"
                /\ last'.ret = <<>>
                /\ last'.calls = <<>>]_vars

\* the second fetch of a session without items, one tick after the first,
\* answered from the cache
C12_Witness ==
    /\ last.op = "fetch"
    /\ last.hit
    /\ last.ret = <<>>
    /\ NoStoredItems(table, last)
    /\ EntryAge(cache, last.user, last.session, clock) = 1

(***************************************************************************)
(* C13                                                                     *)
(***************************************************************************)
\* C13: save_chat_messages leaves every cache entry as it was, whatever its
\* outcome; when it succeeds it has issued one put, of the conversation before
\* the call followed by the whole batch (whatever the roles) and trimmed; so
\* an entry of the session made before the call is still what fetch_all_chats
\* returns until it expires.
C13_BulkSaveKeepsCache ==
    [][StepOf("bulk")
       => /\ cache' = cache
          /\ last'.outcome = "ok"
             => /\ last'.calls = <<"get", "put">>
                /\ Persisted(table', last'.tbl, last'.user, last'.session, last'.agent)
                     = conversation_to_dict(
                           trim_conversation(
                               Persisted(table, last'.tbl, last'.user, last'.session,
                                         last'.agent)
                                  \o StoredForm(last'.msgs, clock),
                               last'.size))]_vars

\* a fetch answered from the cache with a result that is no longer that of
\* the table: only a bulk save writes to the table and keeps the entry
C13_Witness ==
    /\ last.op = "fetch"
    /\ last.hit
    /\ nTicks = 0
    /\ ~SameBag(last.ret,
                _remove_timestamps(StoredOfSession(table, last.tbl, last.user, last.session)))

(***************************************************************************)
(* C14                                                                     *)
(***************************************************************************)
\* the outcomes of a save whose read of the item failed; the record of such a
\* call does not show the batch
GetFailures == {"StoreError", "TypeError", "KeyError"}

\* C14: save_chat_messages given an empty batch fails with the outcome
\* InvalidArgument, issues no put and leaves the table and the cache as they
\* were.
C14_EmptyBatchRejected ==
    [][(StepOf("bulk") /\ last'.msgs = <<>> /\ last'.outcome \notin GetFailures)
       => /\ last'.outcome = "InvalidArgument"
          /\ "put" \notin Elements(last'.calls)
          /\ table' = table
          /\ cache' = cache]_vars

(***************************************************************************)
(* C20                                                                     *)
(***************************************************************************)
RECURSIVE Interleaves(_, _, _)
\* m is x and y shuffled together, each in its own order
Interleaves(m, x, y) ==
    IF m = <<>> THEN x = <<>> /\ y = <<>>
    ELSE \/ x # <<>> /\ Head(m) = Head(x) /\ Interleaves(Tail(m), Tail(x), y)
         \/ y # <<>> /\ Head(m) = Head(y) /\ Interleaves(Tail(m), x, Tail(y))

\* the persisted conversation of the agent as the aggregate shows its messages
ShownOfAgent(tab, call, agent_id) ==
    LET recs == Persisted(tab, call.tbl, call.user, call.session, agent_id)
    IN [j \in 1..Len(recs) |-> Shown(recs[j], agent_id)]

PerAgentOrderKept ==
    Interleaves(last.ret, ShownOfAgent(table, last, <<"a">>), ShownOfAgent(table, last, <<"b">>))

TimestampsNeverDecrease(tab, call) ==
    \A a \in AgentIds : Ascending(Persisted(tab, call.tbl, call.user, call.session, a))

\* C20 as stated: the result of fetch_all_chats on a cache miss is the agents'
\* persisted conversations shuffled together, each agent's messages in the
\* order of its persisted conversation, whatever timestamps the saved messages
\* carried.
C20_AggregateKeepsAgentOrder == FetchedFromStore => PerAgentOrderKept

\* C20 amended: the same, when along every agent's persisted conversation the
\* timestamps never decrease (equal timestamps included).
C20_AggregateKeepsAscendingAgentOrder ==
    (FetchedFromStore /\ TimestampsNeverDecrease(table, last)) => PerAgentOrderKept

\* two agents' conversations, one of them ending in a bulk batch whose
\* messages received the same timestamp
C20_Witness ==
    /\ FetchedFromStore
    /\ TimestampsNeverDecrease(table, last)
    /\ Persisted(table, last.tbl, last.user, last.session, <<"b">>) # <<>>
    /\ LET recs == Persisted(table, last.tbl, last.user, last.session, <<"a">>)
       IN /\ Len(recs) >= 3
          /\ recs[Len(recs)].timestamp = recs[Len(recs) - 1].timestamp
    /\ PerAgentOrderKept

(***************************************************************************)
(* SpecKeys: the handlers over identifiers that contain the separators of  *)
(* the keys, and over two tables (two DynamoDbChatStorage objects of one   *)
(* process, which share the class attribute _chat_cache)                   *)
(***************************************************************************)
KeyTables == {"T", "U"}
KeyUserIds == {<<"u">>, <<"u", ":", "v">>}
KeySessionIds == {<<"s">>, <<"s", "#", "x">>, <<"v", ":", "s">>}
KeyAgentIds == {<<"a">>, <<"x", "#", "a">>}
KeyMessages == {UserPlain, AssistantTwoBlocks}

\* the messages put by save_chat_message, each with the identifiers of its call
SavedAfter(svd, call, stored) ==
    IF call.op = "save" /\ call.outcome = "ok"
    THEN svd \cup {[tbl |-> call.tbl, user |-> call.user, session |-> call.session,
                    agent |-> call.agent, msg |-> stored]}
    ELSE svd

\* for every cache entry, the (table, user, session) of the fetch that stored it
OwnerAfter(own, call, cch) ==
    [k \in DOMAIN cch |->
        IF call.op = "fetch" /\ CachePopulated(call) /\ k = CacheKey(call.user, call.session)
        THEN FetchKey(call)
        ELSE own[k]]

SaveKeys ==
    /\ \E tbl \in KeyTables, user_id \in KeyUserIds, session_id \in KeySessionIds,
          agent_id \in KeyAgentIds, new_message \in KeyMessages :
           /\ SaveChatMessage(tbl, user_id, session_id, agent_id, new_message, None, "none")
           /\ saved' = SavedAfter(saved, last', StampNew(new_message, clock))
    /\ owner' = OwnerAfter(owner, last', cache')
    /\ UNCHANGED <<failed, threadVars>>

FetchKeys ==
    /\ \E tbl \in KeyTables, user_id \in KeyUserIds, session_id \in KeySessionIds :
          \E order \in Orderings(QueryKeys(table, tbl, user_id, session_id)) :
             FetchAllChats(tbl, user_id, session_id, "none", order, FALSE)
    /\ owner' = OwnerAfter(owner, last', cache')
    /\ UNCHANGED <<failed, saved, threadVars>>

InitKeys == Init /\ table = EmptyTable

NextKeys == SaveKeys \/ FetchKeys \/ Return

SpecKeys == InitKeys /\ [][NextKeys]_vars

(***************************************************************************)
(* C17                                                                     *)
(***************************************************************************)
SavedUnder(svd, call) ==
    {r \in svd : r.tbl = call.tbl /\ r.user = call.user /\ r.session = call.session}

\* C17: whatever characters the identifiers contain, every message that
\* fetch_all_chats(user, S) returns on a cache miss was saved under that user
\* and session S, and is shown labelled with the whole agent_id it was saved
\* under.
C17_OnlyOwnSessionShown ==
    FetchedFromStore
    => \A i \in 1..Len(last.ret) :
          \E r \in SavedUnder(saved, last) : last.ret[i] = Shown(r.msg, r.agent)

(***************************************************************************)
(* C18                                                                     *)
(***************************************************************************)
\* C18: fetch_all_chats of one (table, user, session) answered from the cache
\* returns an entry stored by a fetch of the same (table, user, session), and
\* save_chat_message deletes no entry stored for another (table, user,
\* session).
C18_CacheEntriesPrivate ==
    [][/\ (StepOf("fetch") /\ last'.hit)
          => owner[CacheKey(last'.user, last'.session)] = FetchKey(last')
       /\ StepOf("save")
          => \A k \in DOMAIN cache \ DOMAIN cache' : owner[k] = FetchKey(last')]_vars

(***************************************************************************)
(* SpecThreads: two callers of one process on the conversation of          *)
(* (T, u, s, a). A step is taken by one caller; the clock moves between    *)
(* steps. Every save is made without a history size.                       *)
(***************************************************************************)
MaxCalls == 3

ThreadTable == "T"
ThreadUser == <<"u">>
ThreadSession == <<"s">>
ThreadAgent == <<"a">>
ThreadMessages == {UserPlain, AssistantTwoBlocks}
ThreadBatches == {<<>>, <<UserPlain, UserPlain>>}

\* what only Spec and SpecKeys record of a call
callVars == <<last, chain, onlySaved, failed>>

\* caller p is between two calls: it has made none yet, or its last call has
\* finished (its record stays until p starts the next call)
Free(p) == procs[p].pc \in {"idle", "done"}

\* the callers are interchangeable: a call is started by the first free one
FirstIdle(p) == Free(p) /\ (p = "p" \/ ~Free("p"))

\* the clock moves by one time-to-live, or by more than the sweep's limit
ThreadTicks == {CacheTtlMs, SweepFactor * CacheTtlMs + 1}

\* response['Items']: the items of the table that the query matches
QueryResponse(tab, tbl, user_id, session_id) ==
    [k \in {ItemKey(tbl, user_id, sk) : sk \in QueryKeys(tab, tbl, user_id, session_id)} |->
        tab[k]]

\* the caller p moves to loc
Moves(p, loc) == procs' = [procs EXCEPT ![p] = loc]

\* the call of p has finished
Finished(loc, outcome, ret) ==
    [loc EXCEPT !.pc = "done", !.outcome = outcome, !.ret = ret, !.msgs = <<>>,
                !.read = <<>>, !.snap = <<>>]

\* origin restricted to the entries of cch, the entry of cache_key being read
\* by loc
OriginAfter(org, cch, cache_key, loc) ==
    [k \in DOMAIN cch |->
        IF k = cache_key THEN [version |-> loc.ver, began |-> loc.current_time] ELSE org[k]]

\* fetch_all_chats, lines 179-187: the time is read and the cache consulted
FetchStart(p, session_id) ==
    LET cache_key == CacheKey(ThreadUser, session_id)
        current_time == clock
        found == cache_key \in DOMAIN cache
        started == [Idle EXCEPT !.op = "fetch", !.session = session_id,
                                !.current_time = current_time,
                                !.stale = found /\ origin[cache_key].version < Len(writes)]
    IN /\ FirstIdle(p)
       /\ nOps < MaxCalls
       /\ nOps' = nOps + 1
       /\ IF found /\ CacheFresh(cache[cache_key], current_time)
          THEN Moves(p, Finished([started EXCEPT !.hit = TRUE,
                                                 !.ver = origin[cache_key].version,
                                                 !.made = origin[cache_key].began],
                                 "ok", cache[cache_key].data))
          ELSE Moves(p, [started EXCEPT !.pc = "query"])
       /\ UNCHANGED <<table, cache, clock, nTicks, writes, origin>>

\* lines 191-199: the query answers with the items the table holds now
FetchQuery(p, fault) ==
    LET loc == procs[p]
    IN /\ loc.pc = "query"
       /\ IF fault = "query"
          THEN Moves(p, Finished(loc, "StoreError", <<>>))
          ELSE Moves(p, [loc EXCEPT !.pc = "process",
                                    !.snap = QueryResponse(table, ThreadTable, ThreadUser,
                                                           loc.session),
                                    !.ver = Len(writes)])
       /\ UNCHANGED <<table, cache, clock, nOps, nTicks, writes, origin>>

\* lines 201-252: the items are merged in the order of the response, the entry
\* is stored, the cache is swept
FetchProcess(p, order, sweep) ==
    LET loc == procs[p]
        cache_key == CacheKey(ThreadUser, loc.session)
        keys == QueryKeys(loc.snap, ThreadTable, ThreadUser, loc.session)
        attr(sk) == loc.snap[ItemKey(ThreadTable, ThreadUser, sk)]
        all_chats == SortByTimestamp(ProcessItems(loc.snap, ThreadTable, ThreadUser, order))
    IN /\ loc.pc = "process"
       /\ \E call \in {IF keys = {} THEN Finished(loc, "ok", <<>>)
                       ELSE IF \E sk \in keys : CountRaises(attr(sk))
                       THEN Finished(loc, "TypeError", <<>>)
                       ELSE IF \E sk \in keys : ItemRaises(attr(sk))
                       THEN Finished(loc, "KeyError", <<>>)
                       ELSE Finished(loc, "ok", _remove_timestamps(all_chats))} :
            /\ Moves(p, call)
            /\ cache' = IF ~CachePopulated(call) THEN cache
                        ELSE IF keys = {}
                        THEN StoreEmptyEntry(cache, cache_key, loc.current_time)
                        ELSE _clean_cache(StoreEntry(cache, cache_key, loc.current_time,
                                                     call.ret),
                                          loc.current_time, sweep)
            /\ origin' = IF ~CachePopulated(call) THEN origin
                         ELSE OriginAfter(origin, cache', cache_key, loc)
       /\ UNCHANGED <<table, clock, nOps, nTicks, writes>>

\* save_chat_message, lines 31-37, and save_chat_messages, lines 97-98: get_item
SaveGet(p, op, msgs) ==
    /\ FirstIdle(p)
    /\ nOps < MaxCalls
    /\ nOps' = nOps + 1
    /\ \E fetched \in {fetch_chat_with_timestamp(table, ThreadTable, ThreadUser, ThreadSession,
                                                 ThreadAgent)} :
          LET started == [Idle EXCEPT !.op = op, !.session = ThreadSession]
          IN IF ~fetched.ok THEN Moves(p, Finished(started, fetched.exc, <<>>))
             ELSE Moves(p, [started EXCEPT !.pc = IF op = "save" THEN "decide" ELSE "extend",
                                           !.msgs = msgs, !.read = fetched.conv])
    /\ UNCHANGED <<table, cache, clock, nTicks, writes, origin>>

\* save_chat_message, lines 40-74: the role check, the stamp, the trim and the
\* invalidation of the cache, up to the call of put_item
SaveDecide(p) ==
    LET loc == procs[p]
        cache_key == CacheKey(ThreadUser, loc.session)
        new_message == loc.msgs[1]
        stamped == StampNew(new_message, clock)
    IN /\ loc.pc = "decide"
       /\ IF ConsecutiveRole(loc.read, new_message)
          THEN /\ Moves(p, Finished(loc, "suppressed", SuppressedResult(loc.read)))
               /\ UNCHANGED <<cache, origin>>
          ELSE /\ Moves(p, [loc EXCEPT !.pc = "put", !.msgs = <<stamped>>,
                                       !.read = TrimmedAfterAppend(loc.read, stamped, None),
                                       !.deleted = cache_key \in DOMAIN cache])
               /\ cache' = InvalidateCache(cache, cache_key)
               /\ origin' = [k \in DOMAIN cache' |-> origin[k]]
       /\ UNCHANGED <<table, clock, nOps, nTicks, writes>>

\* the put of the conversation conv that ends with the messages new
PutByCaller(p, loc, new, conv) ==
    /\ table' = PutItem(table, ThreadTable, ThreadUser,
                        _generate_key(ThreadUser, ThreadSession, ThreadAgent), conv)
    /\ writes' = Append(writes, [time |-> clock, new |-> conversation_to_dict(new)])
    /\ Moves(p, Finished([loc EXCEPT !.ver = Len(writes) + 1], "ok", SavedResult(conv)))

\* save_chat_message, lines 77-80: put_item
SavePut(p, fault) ==
    LET loc == procs[p]
    IN /\ loc.pc = "put"
       /\ IF fault = "put"
          THEN /\ Moves(p, Finished(loc, "StoreError", <<>>))
               /\ UNCHANGED <<table, writes>>
          ELSE PutByCaller(p, loc, loc.msgs, loc.read)
       /\ UNCHANGED <<cache, clock, nOps, nTicks, origin>>

\* save_chat_messages, lines 106-136: the batch is stamped, the conversation
\* extended and trimmed, and put
BulkPut(p, fault) ==
    LET loc == procs[p]
        stamped == StampBatch(loc.msgs, clock)
    IN /\ loc.pc = "extend"
       /\ IF loc.msgs = <<>>
          THEN /\ Moves(p, Finished(loc, "IndexError", <<>>))
               /\ UNCHANGED <<table, writes>>
          ELSE IF fault = "put"
          THEN /\ Moves(p, Finished(loc, "StoreError", <<>>))
               /\ UNCHANGED <<table, writes>>
          ELSE PutByCaller(p, loc, stamped, TrimmedAfterExtend(loc.read, stamped, None))
       /\ cache' = CacheAfterBulkSave(cache, CacheKey(ThreadUser, loc.session))
       /\ UNCHANGED <<clock, nOps, nTicks, origin>>

ThreadFetchStart ==
    /\ \E p \in Procs, session_id \in SessionIds : FetchStart(p, session_id)
    /\ UNCHANGED <<callVars, keyVars>>

ThreadFetchQuery ==
    /\ \E p \in Procs, fault \in FetchFaults : FetchQuery(p, fault)
    /\ UNCHANGED <<callVars, keyVars>>

ThreadFetchProcess ==
    /\ \E p \in Procs :
          \E order \in Orderings(QueryKeys(procs[p].snap, ThreadTable, ThreadUser,
                                           procs[p].session)),
             sweep \in SweepDraws(cache, procs[p].current_time) :
              FetchProcess(p, order, sweep)
    /\ UNCHANGED <<callVars, keyVars>>

ThreadSaveGet ==
    /\ \E p \in Procs, new_message \in ThreadMessages : SaveGet(p, "save", <<new_message>>)
    /\ UNCHANGED <<callVars, keyVars>>

ThreadBulkGet ==
    /\ \E p \in Procs, new_messages \in ThreadBatches : SaveGet(p, "bulk", new_messages)
    /\ UNCHANGED <<callVars, keyVars>>

ThreadSaveDecide ==
    /\ \E p \in Procs : SaveDecide(p)
    /\ UNCHANGED <<callVars, keyVars>>

ThreadSavePut ==
    /\ \E p \in Procs, fault \in {"none", "put"} : SavePut(p, fault)
    /\ UNCHANGED <<callVars, keyVars>>

ThreadBulkPut ==
    /\ \E p \in Procs, fault \in {"none", "put"} : BulkPut(p, fault)
    /\ UNCHANGED <<callVars, keyVars>>

ThreadAdvance ==
    /\ nTicks < MaxTicks
    /\ nTicks' = nTicks + 1
    /\ \E d \in ThreadTicks : clock' = clock + d
    /\ UNCHANGED <<table, cache, nOps, callVars, keyVars, threadVars>>

\* the conversation of agent a in session s as two earlier saves left it; no
\* item of session t
ThreadInitTable ==
    TableOf("T", <<"u">>,
            (<<"s", "#", "a">> :> ListAttr(<<Rec("user", Blocks(<<[text |-> "hi"]>>), 1),
                                            Rec("assistant",
                                                Blocks(<<[text |-> "yo"], [text |-> "ps"]>>), 4)>>)))

InitThreads ==
    /\ table = ThreadInitTable
    /\ cache = <<>>
    /\ clock = 5
    /\ nOps = 0
    /\ nTicks = 0
    /\ procs = [p \in Procs |-> Idle]
    /\ writes = <<>>
    /\ origin = <<>>
    /\ last = NoCall
    /\ chain = NoChain
    /\ onlySaved = {}
    /\ failed = <<>>
    /\ saved = {}
    /\ owner = <<>>

NextThreads ==
    \/ ThreadFetchStart \/ ThreadFetchQuery \/ ThreadFetchProcess
    \/ ThreadSaveGet \/ ThreadSaveDecide \/ ThreadSavePut
    \/ ThreadBulkGet \/ ThreadBulkPut
    \/ ThreadAdvance

SpecThreads == InitThreads /\ [][NextThreads]_vars

(***************************************************************************)
(* Vocabulary of the claims about SpecThreads                              *)
(***************************************************************************)
\* this step ends the call op of caller p
Ends(p, op) == procs'[p] # procs[p] /\ procs'[p].pc = "done" /\ procs'[p].op = op

\* caller p holds the result of a call op
Holds(p, op) == procs[p].pc = "done" /\ procs[p].op = op

ThreadCacheKey == CacheKey(ThreadUser, ThreadSession)

\* the conversation of (T, u, s, a) as the table holds it
ThreadPersisted == Persisted(table, ThreadTable, ThreadUser, ThreadSession, ThreadAgent)

(***************************************************************************)
(* C15: when save_chat_message returns for an accepted message, the cache  *)
(* holds no entry of the session that was read from the table before the   *)
(* save's put (the entry is invalidated after the put, so an entry that a  *)
(* fetch_all_chats stored in between does not survive the save); and a     *)
(* save whose put fails has not deleted an entry of the cache.             *)
(***************************************************************************)
C15_InvalidatedAfterPut ==
    [][\A p \in Procs :
          Ends(p, "save")
          => /\ procs'[p].outcome = "ok"
                => \/ ThreadCacheKey \notin DOMAIN cache'
                   \/ origin'[ThreadCacheKey].version >= procs'[p].ver
             /\ (procs[p].pc = "put" /\ procs'[p].outcome = "StoreError")
                => ~procs'[p].deleted]_vars

(***************************************************************************)
(* C19: the conversation the table holds contains the messages of every    *)
(* save_chat_message and save_chat_messages call that put them and         *)
(* returned (every save is made without a history size, so nothing is      *)
(* trimmed).                                                               *)
(***************************************************************************)
\* the messages put by the calls that returned, one after the other
RECURSIVE PutMessages(_)
PutMessages(ws) == IF ws = <<>> THEN <<>> ELSE Head(ws).new \o PutMessages(Tail(ws))

C19_NoLostUpdate ==
    \A m \in Elements(PutMessages(writes)) :
        Count(ThreadPersisted, m) >= Count(PutMessages(writes), m)

(***************************************************************************)
(* C16: whatever the interleaving of fetch_all_chats with the two saves    *)
(* and the sweep, a fetch_all_chats that is answered from an entry read    *)
(* before a completed put began less than one time-to-live after the fetch *)
(* that stored the entry began; and a fetch_all_chats that began at least  *)
(* one time-to-live after a put completed returns data read from the table *)
(* after that put.                                                         *)
(***************************************************************************)
\* the puts completed at least one time-to-live before the time now
SettledWrites(ws, now) == {v \in 1..Len(ws) : ws[v].time + CacheTtlMs <= now}

C16_BoundedStaleness ==
    \A p \in Procs :
        (Holds(p, "fetch") /\ procs[p].outcome = "ok")
        => /\ (procs[p].hit /\ procs[p].stale)
              => procs[p].current_time - procs[p].made < CacheTtlMs
           /\ \A v \in SettledWrites(writes, procs[p].current_time) : procs[p].ver >= v

\* a fetch_all_chats that began one time-to-live or more after a put, and found
\* an entry read before the put, has returned what the table held after it
C16_Witness ==
    \E p \in Procs :
        /\ Holds(p, "fetch")
        /\ procs[p].outcome = "ok"
        /\ procs[p].stale
        /\ ~procs[p].hit
        /\ SettledWrites(writes, procs[p].current_time) # {}
        /\ procs[p].ver = Len(writes)
        /\ procs[p].ret # <<>>

====
